---- MODULE Spec2Model ----
(***************************************************************************)
(* Model of the engine-dispatch and job-completion protocol of Pyrip:     *)
(* performPyripEngineScrape (dispatch, then the status polling loop) and   *)
(* pyripEngineScrape (the dispatcher).                                     *)
(*                                                                         *)
(* One scrape attempt is one sequential async function.  pc is the line    *)
(* the function is at; the awaits (dispatch, status query, inter-poll      *)
(* timer) are the only places where the wall clock `now` advances.         *)
(* The remote engine, the transport (robustFetch) and the status call      *)
(* (pyripEngineCheckStatus) are the environment: what they answer and how  *)
(* long they take is chosen with \E.                                       *)
(*                                                                         *)
(* Spec / LiveSpec: one attempt.  MultiSpec: two interleaved attempts.     *)
(* BuilderSpec: the chrome-cdp request builder, a pure function.           *)
(***************************************************************************)
EXTENDS Integers, Sequences, FiniteSets, TLC

(* ------------------------------ bounds --------------------------------- *)
\* longest dispatch round trip, in clock ticks
MaxDispatchTicks == 1
\* longest status-query round trip, in clock ticks
MaxQueryTicks == 2
\* largest lateness of the inter-poll timer, in clock ticks
MaxSleepLateTicks == 1

\* one clock tick in milliseconds
Ms(ticks) == ticks * 250

(* ------------------------- program constants --------------------------- *)
defaultTimeout == 10000
errorLimit == 3
pollDelay == 250

(* --------------------------- input domains ----------------------------- *)
\* the `timeout` argument of performPyripEngineScrape (default: defaultTimeout)
Timeouts == {250, 1000, defaultTimeout}
JobIds == {"job1"}
Payloads == {"docA", "docB"}
EngineErrors == {"engineErrA", "engineErrB"}
UnexpectedErrors == {"netErr", "parseErr"}
TransportErrors == {"fetchErr", "schemaErr"}

NoCauseTimeout == -1
NoError == [kind |-> "none", detail |-> "none", causeErrors |-> <<>>, causeTimeout |-> NoCauseTimeout]
NoScrape == [jobId |-> "none", processing |-> FALSE]
NoOutcome == [kind |-> "none", detail |-> "none"]
NoFetch == [ok |-> FALSE, jobId |-> "none", processing |-> FALSE, error |-> "none"]

VARIABLES
    pc,           \* position in performPyripEngineScrape
    now,          \* Date.now(), ms
    timeout,      \* the timeout argument
    scrape,       \* the job handle returned by pyripEngineScrape
    startTime,    \* line 23
    errors,       \* line 25, the anomaly log
    status,       \* line 26, "undefined" or the success payload
    thrown,       \* the error the attempt rejected with
    result,       \* the value the attempt resolved with
    \* history (observations of the run, never read by the program)
    fetched,      \* what robustFetch answered to the dispatch
    queries,      \* number of status queries issued
    lastQueryAt,  \* clock when the last status query was issued
    lastOutcome,  \* what the last status query yielded
    raised,       \* unexpected errors raised by status queries, in order
    onlyStill,    \* every status query answered so far was StillProcessing
    limitEvaluated, \* the ceiling test of line 29 has been evaluated
    \* several interleaved attempts (MultiSpec)
    att,          \* attempt id -> the locals of that call
    mnow,         \* Date.now(), shared by the attempts
    \* the chrome-cdp request builder (BuilderSpec)
    bpc,          \* "idle", "input" or "built"
    meta,         \* the Meta argument
    request       \* the request object built from it

vars == <<pc, now, timeout, scrape, startTime, errors, status, thrown, result,
          fetched, queries, lastQueryAt, lastOutcome, raised, onlyStill, limitEvaluated>>
mvars == <<att, mnow>>
bvars == <<bpc, meta, request>>
\* the state of the other specifications, untouched by the single attempt
outside == <<mvars, bvars>>

prog == <<timeout, scrape, startTime, errors, status, thrown, result>>
hist == <<fetched, queries, lastQueryAt, lastOutcome, raised, onlyStill, limitEvaluated>>

\* the attempts of MultiSpec, not started
Attempts == {"a1", "a2"}
IdleAttempt ==
    [pc |-> "idle", timeout |-> 0, jobId |-> "none", startTime |-> 0, errors |-> <<>>,
     status |-> "undefined", thrown |-> NoError, wakeAt |-> 0, nraised |-> 0]
MultiIdle ==
    /\ att = [i \in Attempts |-> IdleAttempt]
    /\ mnow = 0

\* the request builder of BuilderSpec, not called
NoMeta == [url |-> "none", waitFor |-> 0, formats |-> {}, hasActions |-> FALSE, actions |-> <<>>]
NoRequest == [url |-> "none", engine |-> "none", instantReturn |-> FALSE, hasActions |-> FALSE, actions |-> <<>>]
BuilderIdle ==
    /\ bpc = "idle"
    /\ meta = NoMeta
    /\ request = NoRequest

\* one attempt about to call pyripEngineScrape (line 21)
AttemptInit ==
    /\ pc = "dispatch"
    /\ now = 0
    /\ scrape = NoScrape
    /\ startTime = 0
    /\ errors = <<>>
    /\ status = "undefined"
    /\ thrown = NoError
    /\ result = "undefined"
    /\ fetched = NoFetch
    /\ queries = 0
    /\ lastQueryAt = 0
    /\ lastOutcome = NoOutcome
    /\ raised = <<>>
    /\ onlyStill = TRUE
    /\ limitEvaluated = FALSE

Init ==
    /\ timeout \in Timeouts
    /\ AttemptInit
    /\ MultiIdle
    /\ BuilderIdle

(* ------------------------------ errors --------------------------------- *)
\* an error object thrown as is (EngineError, transport error)
PlainError(k, d) == [kind |-> k, detail |-> d, causeErrors |-> <<>>, causeTimeout |-> NoCauseTimeout]
\* new Error("Error limit hit...", { cause: { errors } })
ErrorLimitError(errs) == [kind |-> "Error", detail |-> "Error limit hit", causeErrors |-> errs, causeTimeout |-> NoCauseTimeout]
\* new TimeoutError("...", { cause: { errors, timeout } })
TimeoutError(errs, t) == [kind |-> "TimeoutError", detail |-> "timing out", causeErrors |-> errs, causeTimeout |-> t]

(* ---------------------------- dispatcher ------------------------------- *)
\* variant: the dispatcher catches the transport error and throws its own
pyripEngineScrape_Wrapped(fetch) ==
    IF fetch.ok THEN fetch ELSE [fetch EXCEPT !.error = "dispatchFailed"]

\* pyripEngineScrape: returns what robustFetch returned, rejects with what
\* robustFetch rejected with (no catch, no retry, no wrapping).
pyripEngineScrape(fetch) == fetch

\* variant: a handle with processing = false is taken as already finished
DispatchOk_SkipWhenDone ==
    /\ pc = "dispatch"
    /\ \E j \in JobIds, p \in BOOLEAN, lat \in 0..MaxDispatchTicks :
         LET f == [ok |-> TRUE, jobId |-> j, processing |-> p, error |-> "none"]
             r == pyripEngineScrape(f)
         IN /\ fetched' = f
            /\ scrape' = [jobId |-> r.jobId, processing |-> r.processing]
            /\ now' = now + Ms(lat)
            /\ startTime' = now + Ms(lat)
            /\ status' = IF r.processing THEN "undefined" ELSE "docA"
    /\ errors' = <<>>
    /\ pc' = "while"
    /\ UNCHANGED <<timeout, thrown, result, queries, lastQueryAt, lastOutcome, raised, onlyStill, limitEvaluated>>
    /\ UNCHANGED outside

\* line 21, dispatch answered; lines 23-26 run in the same turn
DispatchOk ==
    /\ pc = "dispatch"
    /\ \E j \in JobIds, p \in BOOLEAN, lat \in 0..MaxDispatchTicks :
         LET f == [ok |-> TRUE, jobId |-> j, processing |-> p, error |-> "none"]
             r == pyripEngineScrape(f)
         IN /\ fetched' = f
            /\ scrape' = [jobId |-> r.jobId, processing |-> r.processing]
            /\ now' = now + Ms(lat)
            /\ startTime' = now + Ms(lat)
    /\ errors' = <<>>
    /\ status' = "undefined"
    /\ pc' = "while"
    /\ UNCHANGED <<timeout, thrown, result, queries, lastQueryAt, lastOutcome, raised, onlyStill, limitEvaluated>>
    /\ UNCHANGED outside

\* line 21, the transport rejected
DispatchFail ==
    /\ pc = "dispatch"
    /\ \E e \in TransportErrors, lat \in 0..MaxDispatchTicks :
         LET f == [ok |-> FALSE, jobId |-> "none", processing |-> FALSE, error |-> e]
             r == pyripEngineScrape(f)
         IN /\ fetched' = f
            /\ thrown' = PlainError("TransportError", r.error)
            /\ now' = now + Ms(lat)
    /\ pc' = "thrown"
    /\ UNCHANGED <<timeout, scrape, startTime, errors, status, result, queries, lastQueryAt, lastOutcome, raised, onlyStill, limitEvaluated>>
    /\ UNCHANGED outside

(* ------------------------------ poller --------------------------------- *)
\* variant: the loop condition ignores `status` (while (true) without a break)
WhileTest_NoExit ==
    /\ pc = "while"
    /\ pc' = "checkLimit"
    /\ UNCHANGED <<now, timeout, scrape, startTime, errors, status, thrown, result>>
    /\ UNCHANGED hist
    /\ UNCHANGED outside

\* line 28 (and line 57 when the loop ends)
WhileTest ==
    /\ pc = "while"
    /\ IF status = "undefined"
         THEN /\ pc' = "checkLimit"
              /\ UNCHANGED result
         ELSE /\ pc' = "returned"
              /\ result' = status
    /\ UNCHANGED <<now, timeout, scrape, startTime, errors, status, thrown>>
    /\ UNCHANGED hist
    /\ UNCHANGED outside

\* variant: the timeout test is made before the ceiling test
CheckErrorLimit_TimeoutFirst ==
    /\ pc = "checkLimit"
    /\ limitEvaluated' = TRUE
    /\ IF now - startTime > timeout
         THEN /\ thrown' = TimeoutError(errors, timeout)
              /\ pc' = "thrown"
         ELSE IF Len(errors) >= errorLimit
           THEN /\ thrown' = ErrorLimitError(errors)
                /\ pc' = "thrown"
           ELSE /\ pc' = "checkTimeout"
                /\ UNCHANGED thrown
    /\ UNCHANGED <<now, timeout, scrape, startTime, errors, status, result>>
    /\ UNCHANGED <<fetched, queries, lastQueryAt, lastOutcome, raised, onlyStill>>
    /\ UNCHANGED outside

\* variant: `errors.length > errorLimit`
CheckErrorLimit_OffByOne ==
    /\ pc = "checkLimit"
    /\ limitEvaluated' = TRUE
    /\ IF Len(errors) > errorLimit
         THEN /\ thrown' = ErrorLimitError(errors)
              /\ pc' = "thrown"
         ELSE /\ pc' = "checkTimeout"
              /\ UNCHANGED thrown
    /\ UNCHANGED <<now, timeout, scrape, startTime, errors, status, result>>
    /\ UNCHANGED <<fetched, queries, lastQueryAt, lastOutcome, raised, onlyStill>>
    /\ UNCHANGED outside

\* lines 29-32
CheckErrorLimit ==
    /\ pc = "checkLimit"
    /\ limitEvaluated' = TRUE
    /\ IF Len(errors) >= errorLimit
         THEN /\ thrown' = ErrorLimitError(errors)
              /\ pc' = "thrown"
         ELSE /\ pc' = "checkTimeout"
              /\ UNCHANGED thrown
    /\ UNCHANGED <<now, timeout, scrape, startTime, errors, status, result>>
    /\ UNCHANGED <<fetched, queries, lastQueryAt, lastOutcome, raised, onlyStill>>
    /\ UNCHANGED outside

\* variant: `Date.now() - startTime >= timeout`
CheckTimeout_AtLeast ==
    /\ pc = "checkTimeout"
    /\ IF now - startTime >= timeout
         THEN /\ thrown' = TimeoutError(errors, timeout)
              /\ pc' = "thrown"
         ELSE /\ pc' = "issue"
              /\ UNCHANGED thrown
    /\ UNCHANGED <<now, timeout, scrape, startTime, errors, status, result>>
    /\ UNCHANGED hist
    /\ UNCHANGED outside

\* variant: on timeout the iteration is skipped (`continue`) instead of throwing
CheckTimeout_Continue ==
    /\ pc = "checkTimeout"
    /\ IF now - startTime > timeout
         THEN pc' = "while"
         ELSE pc' = "issue"
    /\ UNCHANGED <<now, timeout, scrape, startTime, errors, status, thrown, result>>
    /\ UNCHANGED hist
    /\ UNCHANGED outside

\* lines 34-37
CheckTimeout ==
    /\ pc = "checkTimeout"
    /\ IF now - startTime > timeout
         THEN /\ thrown' = TimeoutError(errors, timeout)
              /\ pc' = "thrown"
         ELSE /\ pc' = "issue"
              /\ UNCHANGED thrown
    /\ UNCHANGED <<now, timeout, scrape, startTime, errors, status, result>>
    /\ UNCHANGED hist
    /\ UNCHANGED outside

\* line 40, the call
IssueCheckStatus ==
    /\ pc = "issue"
    /\ queries' = queries + 1
    /\ lastQueryAt' = now
    /\ pc' = "query"
    /\ UNCHANGED <<now>>
    /\ UNCHANGED prog
    /\ UNCHANGED <<fetched, lastOutcome, raised, onlyStill, limitEvaluated>>
    /\ UNCHANGED outside

\* line 40, the query resolved
CheckStatusSuccess ==
    /\ pc = "query"
    /\ \E p \in Payloads, lat \in 0..MaxQueryTicks :
         /\ status' = p
         /\ lastOutcome' = [kind |-> "Success", detail |-> p]
         /\ now' = now + Ms(lat)
    /\ onlyStill' = FALSE
    /\ pc' = "sleep"
    /\ UNCHANGED <<timeout, scrape, startTime, errors, thrown, result>>
    /\ UNCHANGED <<fetched, queries, lastQueryAt, raised, limitEvaluated>>
    /\ UNCHANGED outside

\* variant: a StillProcessing outcome clears the anomaly log
CheckStatusStillProcessing_Resets ==
    /\ pc = "query"
    /\ \E lat \in 0..MaxQueryTicks : now' = now + Ms(lat)
    /\ lastOutcome' = [kind |-> "StillProcessing", detail |-> "none"]
    /\ errors' = <<>>
    /\ pc' = "sleep"
    /\ UNCHANGED <<timeout, scrape, startTime, status, thrown, result>>
    /\ UNCHANGED <<fetched, queries, lastQueryAt, raised, onlyStill, limitEvaluated>>
    /\ UNCHANGED outside

\* variant: the StillProcessing branch skips the delay (`continue`)
CheckStatusStillProcessing_NoDelay ==
    /\ pc = "query"
    /\ \E lat \in 0..MaxQueryTicks : now' = now + Ms(lat)
    /\ lastOutcome' = [kind |-> "StillProcessing", detail |-> "none"]
    /\ pc' = "while"
    /\ UNCHANGED prog
    /\ UNCHANGED <<fetched, queries, lastQueryAt, raised, onlyStill, limitEvaluated>>
    /\ UNCHANGED outside

\* variant: no instanceof StillProcessingError test, the error is counted
CheckStatusStillProcessing_Counted ==
    /\ pc = "query"
    /\ \E lat \in 0..MaxQueryTicks : now' = now + Ms(lat)
    /\ lastOutcome' = [kind |-> "StillProcessing", detail |-> "none"]
    /\ errors' = Append(errors, "stillProcessing")
    /\ pc' = "sleep"
    /\ UNCHANGED <<timeout, scrape, startTime, status, thrown, result>>
    /\ UNCHANGED <<fetched, queries, lastQueryAt, raised, onlyStill, limitEvaluated>>
    /\ UNCHANGED outside

\* lines 41-43
CheckStatusStillProcessing ==
    /\ pc = "query"
    /\ \E lat \in 0..MaxQueryTicks : now' = now + Ms(lat)
    /\ lastOutcome' = [kind |-> "StillProcessing", detail |-> "none"]
    /\ pc' = "sleep"
    /\ UNCHANGED prog
    /\ UNCHANGED <<fetched, queries, lastQueryAt, raised, onlyStill, limitEvaluated>>
    /\ UNCHANGED outside

\* variant: no instanceof EngineError test, the failure is counted and retried
CheckStatusEngineError_AsAnomaly ==
    /\ pc = "query"
    /\ \E e \in EngineErrors, lat \in 0..MaxQueryTicks :
         /\ errors' = Append(errors, e)
         /\ lastOutcome' = [kind |-> "EngineError", detail |-> e]
         /\ now' = now + Ms(lat)
    /\ onlyStill' = FALSE
    /\ pc' = "sleep"
    /\ UNCHANGED <<timeout, scrape, startTime, status, thrown, result>>
    /\ UNCHANGED <<fetched, queries, lastQueryAt, raised, limitEvaluated>>
    /\ UNCHANGED outside

\* variant: the failure is pushed to `errors` before it is rethrown
CheckStatusEngineError_Recorded ==
    /\ pc = "query"
    /\ \E e \in EngineErrors, lat \in 0..MaxQueryTicks :
         /\ errors' = Append(errors, e)
         /\ thrown' = PlainError("EngineError", e)
         /\ lastOutcome' = [kind |-> "EngineError", detail |-> e]
         /\ now' = now + Ms(lat)
    /\ onlyStill' = FALSE
    /\ pc' = "thrown"
    /\ UNCHANGED <<timeout, scrape, startTime, status, result>>
    /\ UNCHANGED <<fetched, queries, lastQueryAt, raised, limitEvaluated>>
    /\ UNCHANGED outside

\* lines 44-46
CheckStatusEngineError ==
    /\ pc = "query"
    /\ \E e \in EngineErrors, lat \in 0..MaxQueryTicks :
         /\ thrown' = PlainError("EngineError", e)
         /\ lastOutcome' = [kind |-> "EngineError", detail |-> e]
         /\ now' = now + Ms(lat)
    /\ onlyStill' = FALSE
    /\ pc' = "thrown"
    /\ UNCHANGED <<timeout, scrape, startTime, errors, status, result>>
    /\ UNCHANGED <<fetched, queries, lastQueryAt, raised, limitEvaluated>>
    /\ UNCHANGED outside

\* variant: errors.unshift(error)
CheckStatusUnexpected_Unshift ==
    /\ pc = "query"
    /\ \E e \in UnexpectedErrors, lat \in 0..MaxQueryTicks :
         /\ errors' = <<e>> \o errors
         /\ raised' = Append(raised, e)
         /\ lastOutcome' = [kind |-> "Unexpected", detail |-> e]
         /\ now' = now + Ms(lat)
    /\ onlyStill' = FALSE
    /\ pc' = "sleep"
    /\ UNCHANGED <<timeout, scrape, startTime, status, thrown, result>>
    /\ UNCHANGED <<fetched, queries, lastQueryAt, limitEvaluated>>
    /\ UNCHANGED outside

\* variant: the unexpected error is reported but not pushed to `errors`
CheckStatusUnexpected_NotRecorded ==
    /\ pc = "query"
    /\ \E e \in UnexpectedErrors, lat \in 0..MaxQueryTicks :
         /\ raised' = Append(raised, e)
         /\ lastOutcome' = [kind |-> "Unexpected", detail |-> e]
         /\ now' = now + Ms(lat)
    /\ onlyStill' = FALSE
    /\ pc' = "sleep"
    /\ UNCHANGED <<timeout, scrape, startTime, errors, status, thrown, result>>
    /\ UNCHANGED <<fetched, queries, lastQueryAt, limitEvaluated>>
    /\ UNCHANGED outside

\* lines 47-51
CheckStatusUnexpected ==
    /\ pc = "query"
    /\ \E e \in UnexpectedErrors, lat \in 0..MaxQueryTicks :
         /\ errors' = Append(errors, e)
         /\ raised' = Append(raised, e)
         /\ lastOutcome' = [kind |-> "Unexpected", detail |-> e]
         /\ now' = now + Ms(lat)
    /\ onlyStill' = FALSE
    /\ pc' = "sleep"
    /\ UNCHANGED <<timeout, scrape, startTime, status, thrown, result>>
    /\ UNCHANGED <<fetched, queries, lastQueryAt, limitEvaluated>>
    /\ UNCHANGED outside

\* line 54: the timer fires no earlier than pollDelay after it was set
Sleep ==
    /\ pc = "sleep"
    /\ \E late \in 0..MaxSleepLateTicks : now' = now + pollDelay + Ms(late)
    /\ pc' = "while"
    /\ UNCHANGED prog
    /\ UNCHANGED hist
    /\ UNCHANGED outside

Next ==
    \/ DispatchOk
    \/ DispatchFail
    \/ WhileTest
    \/ CheckErrorLimit
    \/ CheckTimeout
    \/ IssueCheckStatus
    \/ CheckStatusSuccess
    \/ CheckStatusStillProcessing
    \/ CheckStatusEngineError
    \/ CheckStatusUnexpected
    \/ Sleep

Spec == Init /\ [][Next]_vars

\* The dispatch call and every status query return, and the timer fires.
\* Termination is checked for timeouts of 1, 4 and 10 inter-poll delays.
LiveTimeouts == {250, 1000, 2500}
LiveInit ==
    /\ timeout \in LiveTimeouts
    /\ AttemptInit
    /\ MultiIdle
    /\ BuilderIdle
LiveSpec == LiveInit /\ [][Next]_vars /\ WF_vars(Next)

TypeOK ==
    /\ pc \in {"dispatch", "while", "checkLimit", "checkTimeout", "issue", "query", "sleep", "returned", "thrown"}
    /\ now \in Nat
    /\ timeout \in Timeouts
    /\ Len(errors) <= errorLimit
    /\ queries \in Nat

(* ----------------------- interleaved attempts -------------------------- *)
(* Several calls of performPyripEngineScrape run as independent async       *)
(* functions on one event loop.  Each call has its own locals (lines 19-26); *)
(* the only thing they all read is the clock.  The code between two awaits  *)
(* runs without interruption, so lines 28-40 are one step here.  An          *)
(* unexpected error is tagged with the attempt whose query raised it.       *)

\* longest run of the shared clock, in ticks
MaxMultiTicks == 4
MultiTimeouts == {250, 500}

vars_single == <<vars, bvars>>

MultiInit ==
    /\ timeout = defaultTimeout
    /\ AttemptInit
    /\ BuilderIdle
    /\ att \in [Attempts -> {[IdleAttempt EXCEPT !.pc = "dispatch", !.timeout = t] : t \in MultiTimeouts}]
    /\ mnow = 0

\* line 21 answered, lines 23-26
MDispatchOk(i) ==
    /\ att[i].pc = "dispatch"
    /\ att' = [att EXCEPT ![i].pc = "top", ![i].jobId = i, ![i].startTime = mnow,
                          ![i].errors = <<>>, ![i].status = "undefined"]
    /\ UNCHANGED <<mnow, vars_single>>

\* line 21 rejected
MDispatchFail(i) ==
    /\ att[i].pc = "dispatch"
    /\ \E e \in TransportErrors :
         att' = [att EXCEPT ![i].pc = "thrown", ![i].thrown = PlainError("TransportError", e)]
    /\ UNCHANGED <<mnow, vars_single>>

\* lines 28-40 (and 57): loop test, ceiling test, timeout test, query issued
MIterate(i) ==
    /\ att[i].pc = "top"
    /\ att' = IF att[i].status # "undefined"
                THEN [att EXCEPT ![i].pc = "returned"]
              ELSE IF Len(att[i].errors) >= errorLimit
                THEN [att EXCEPT ![i].pc = "thrown", ![i].thrown = ErrorLimitError(att[i].errors)]
              ELSE IF mnow - att[i].startTime > att[i].timeout
                THEN [att EXCEPT ![i].pc = "thrown",
                                 ![i].thrown = TimeoutError(att[i].errors, att[i].timeout)]
              ELSE [att EXCEPT ![i].pc = "query"]
    /\ UNCHANGED <<mnow, vars_single>>

\* line 40 resolved, line 54 timer set
MReplySuccess(i) ==
    /\ att[i].pc = "query"
    /\ \E p \in Payloads :
         att' = [att EXCEPT ![i].status = p, ![i].pc = "sleep", ![i].wakeAt = mnow + pollDelay]
    /\ UNCHANGED <<mnow, vars_single>>

\* lines 41-43, line 54 timer set
MReplyStillProcessing(i) ==
    /\ att[i].pc = "query"
    /\ att' = [att EXCEPT ![i].pc = "sleep", ![i].wakeAt = mnow + pollDelay]
    /\ UNCHANGED <<mnow, vars_single>>

\* lines 44-46
MReplyEngineError(i) ==
    /\ att[i].pc = "query"
    /\ \E e \in EngineErrors :
         att' = [att EXCEPT ![i].pc = "thrown", ![i].thrown = PlainError("EngineError", e)]
    /\ UNCHANGED <<mnow, vars_single>>

\* variant: `errors` is a module-level array shared by all calls
MReplyUnexpected_SharedLog(i) ==
    /\ att[i].pc = "query"
    /\ att' = [j \in Attempts |->
                 IF j = i
                   THEN [att[j] EXCEPT !.errors = Append(@, i), !.nraised = @ + 1,
                                       !.pc = "sleep", !.wakeAt = mnow + pollDelay]
                   ELSE [att[j] EXCEPT !.errors = Append(@, i)]]
    /\ UNCHANGED <<mnow, vars_single>>

\* lines 47-51, line 54 timer set
MReplyUnexpected(i) ==
    /\ att[i].pc = "query"
    /\ att' = [att EXCEPT ![i].errors = Append(@, i), ![i].nraised = @ + 1,
                          ![i].pc = "sleep", ![i].wakeAt = mnow + pollDelay]
    /\ UNCHANGED <<mnow, vars_single>>

\* line 54: the timer has fired
MWake(i) ==
    /\ att[i].pc = "sleep"
    /\ mnow >= att[i].wakeAt
    /\ att' = [att EXCEPT ![i].pc = "top"]
    /\ UNCHANGED <<mnow, vars_single>>

\* the clock advances while the attempts are suspended
MTick ==
    /\ mnow < Ms(MaxMultiTicks)
    /\ mnow' = mnow + Ms(1)
    /\ UNCHANGED <<att, vars_single>>

MDispatchOkAny == \E i \in Attempts : MDispatchOk(i)
MDispatchFailAny == \E i \in Attempts : MDispatchFail(i)
MIterateAny == \E i \in Attempts : MIterate(i)
MReplySuccessAny == \E i \in Attempts : MReplySuccess(i)
MReplyStillProcessingAny == \E i \in Attempts : MReplyStillProcessing(i)
MReplyEngineErrorAny == \E i \in Attempts : MReplyEngineError(i)
MReplyUnexpectedAny == \E i \in Attempts : MReplyUnexpected(i)
MWakeAny == \E i \in Attempts : MWake(i)

MultiNext ==
    \/ MDispatchOkAny
    \/ MDispatchFailAny
    \/ MIterateAny
    \/ MReplySuccessAny
    \/ MReplyStillProcessingAny
    \/ MReplyEngineErrorAny
    \/ MReplyUnexpectedAny
    \/ MWakeAny
    \/ MTick

MultiSpec == MultiInit /\ [][MultiNext]_mvars

(* ------------------- chrome-cdp request builder ------------------------- *)
(* scrapeURLWithPyripEngineChromeCDP, lines 60-86: the action pipeline and   *)
(* the request built from meta.  An action is a record; `formats` is only    *)
(* read with includes(), so it is a set here.  hasActions tells whether the  *)
(* `actions` property exists (meta.options.actions may be undefined, and the *)
(* request gets the property only through the spread of lines 84-86).        *)

\* longest list of caller-supplied actions
MaxUserActions == 2

WaitAction(ms) == [type |-> "wait", milliseconds |-> ms, fullPage |-> FALSE, selector |-> "none"]
ScreenshotAction(full) == [type |-> "screenshot", milliseconds |-> 0, fullPage |-> full, selector |-> "none"]
ClickAction(sel) == [type |-> "click", milliseconds |-> 0, fullPage |-> FALSE, selector |-> sel]

\* what a caller may put in meta.options.actions
UserActions == {ClickAction("#next"), WaitAction(100), ScreenshotAction(TRUE)}
UserActionLists == UNION {[1..n -> UserActions] : n \in 0..MaxUserActions}
WaitFors == {0, 100, 500}
Formats == {"markdown", "screenshot", "screenshot@fullPage"}
Metas ==
    {[url |-> "https://example.org", waitFor |-> w, formats |-> f, hasActions |-> TRUE, actions |-> a] :
        w \in WaitFors, f \in SUBSET Formats, a \in UserActionLists}
    \cup
    {[url |-> "https://example.org", waitFor |-> w, formats |-> f, hasActions |-> FALSE, actions |-> <<>>] :
        w \in WaitFors, f \in SUBSET Formats}

\* meta.options.actions ?? []  (line 75)
OwnActions(m) == IF m.hasActions THEN m.actions ELSE <<>>

\* variant: the caller's actions are spread first
BuildActions_UserFirst(m) ==
    OwnActions(m)
    \o (IF m.waitFor # 0 THEN <<WaitAction(m.waitFor)>> ELSE <<>>)
    \o (IF "screenshot" \in m.formats \/ "screenshot@fullPage" \in m.formats
          THEN <<ScreenshotAction("screenshot@fullPage" \in m.formats)>>
          ELSE <<>>)

\* variant: fullPage is taken from the wrong format
BuildActions_PlainFlag(m) ==
    (IF m.waitFor # 0 THEN <<WaitAction(m.waitFor)>> ELSE <<>>)
    \o (IF "screenshot" \in m.formats \/ "screenshot@fullPage" \in m.formats
          THEN <<ScreenshotAction("screenshot" \notin m.formats)>>
          ELSE <<>>)
    \o OwnActions(m)

\* lines 61-76
BuildActions(m) ==
    (IF m.waitFor # 0 THEN <<WaitAction(m.waitFor)>> ELSE <<>>)
    \o (IF "screenshot" \in m.formats \/ "screenshot@fullPage" \in m.formats
          THEN <<ScreenshotAction("screenshot@fullPage" \in m.formats)>>
          ELSE <<>>)
    \o OwnActions(m)

\* variant: `actions` is always put in the request
BuildRequest_AlwaysActions(m) ==
    [url |-> m.url, engine |-> "chrome-cdp", instantReturn |-> TRUE,
     hasActions |-> TRUE, actions |-> BuildActions(m)]

\* lines 78-86
BuildRequest(m) ==
    LET actions == BuildActions(m)
    IN [url |-> m.url, engine |-> "chrome-cdp", instantReturn |-> TRUE,
        hasActions |-> Len(actions) > 0,
        actions |-> IF Len(actions) > 0 THEN actions ELSE <<>>]

BuilderInit ==
    /\ timeout = defaultTimeout
    /\ AttemptInit
    /\ MultiIdle
    /\ bpc = "input"
    /\ meta \in Metas
    /\ request = NoRequest

\* the call builds the request (lines 61-86)
Build ==
    /\ bpc = "input"
    /\ request' = BuildRequest(meta)
    /\ bpc' = "built"
    /\ UNCHANGED <<meta, vars, mvars>>

BuilderNext == Build

BuilderSpec == BuilderInit /\ [][BuilderNext]_bvars

(* ------------------------- derived predicates -------------------------- *)
Terminal == pc \in {"returned", "thrown"}
\* a polling cycle exists once the dispatch has answered with a job handle
Dispatched == scrape # NoScrape
Elapsed == now - startTime

Success == status # "undefined"
Fatal == thrown.kind = "EngineError"
TimedOut == thrown.kind = "TimeoutError"
ErrorLimitExceeded == thrown.kind = "Error"
OutcomeCount ==
    (IF Success THEN 1 ELSE 0) + (IF Fatal THEN 1 ELSE 0)
      + (IF TimedOut THEN 1 ELSE 0) + (IF ErrorLimitExceeded THEN 1 ELSE 0)

(* ------------------------------- claims -------------------------------- *)

\* C1: a polling cycle that has terminated has exactly one of the outcomes
\* Success, Fatal, TimedOut, ErrorLimitExceeded; in no state do two of them
\* apply; and from the moment an outcome applies, the status, the thrown
\* error and the number of issued status queries never change again.
C1_OneTerminalOutcome ==
    /\ [](OutcomeCount <= 1)
    /\ []((Terminal /\ Dispatched) => OutcomeCount = 1)
    /\ [][OutcomeCount >= 1 =>
            /\ status' = status
            /\ thrown' = thrown
            /\ queries' = queries]_vars

C1_Witness ==
    /\ pc = "returned"
    /\ result \in Payloads
    /\ queries >= 2
    /\ thrown = NoError

\* C2: a status query that yields EngineFailure ends the attempt at once as
\* Fatal with that engine error, whatever the number of anomalies recorded
\* before (0, 1 or 2): the anomaly log is left as it was, nothing is thrown
\* for the ceiling, and no status query follows.
C2_EngineFailureIsFatal ==
    /\ [](lastOutcome.kind = "EngineError" =>
            /\ pc = "thrown"
            /\ thrown = PlainError("EngineError", lastOutcome.detail)
            /\ errors = raised
            /\ Len(errors) < errorLimit
            /\ status = "undefined")
    /\ [][(lastOutcome'.kind = "EngineError" /\ lastOutcome.kind # "EngineError") =>
            /\ errors' = errors
            /\ pc' = "thrown"]_vars
    /\ [][lastOutcome.kind = "EngineError" => queries' = queries]_vars

C2_Witness ==
    /\ lastOutcome.kind = "EngineError"
    /\ Len(errors) = 2
    /\ pc = "thrown"

\* C3: once the status queries have raised errorLimit (3) unexpected errors
\* the attempt can only go on to the ceiling test, where it fails with the
\* error-limit error whose cause holds exactly those 3 anomalies; it never
\* issues another query, times out or succeeds.
C3_ThreeAnomaliesHitLimit ==
    Len(raised) = errorLimit =>
        \/ /\ pc \in {"sleep", "while", "checkLimit"}
           /\ thrown = NoError
           /\ errors = raised
        \/ /\ pc = "thrown"
           /\ ErrorLimitExceeded
           /\ thrown.causeErrors = raised
           /\ Len(thrown.causeErrors) = 3

\* three consecutive unexpected errors on the first three polls
C3_Witness ==
    /\ pc = "thrown"
    /\ ErrorLimitExceeded
    /\ queries = 3
    /\ Len(thrown.causeErrors) = 3

\* C4 as stated: a Success that arrives after the timeout has elapsed (the
\* query was in flight when it elapsed) does not make the attempt succeed,
\* i.e. at the moment a Success is taken (the poller is about to start the
\* delay of line 54) the elapsed time is within the timeout.
C4_Original_NoSuccessAfterTimeout ==
    (lastOutcome.kind = "Success" /\ pc = "sleep") => Elapsed <= timeout

\* C4 amended: the timeout is tested only at the start of an iteration,
\* after the ceiling test.  If it has elapsed there (anomaly count below the
\* ceiling) the attempt fails with TimeoutError carrying the anomaly log and
\* the timeout; no status query is issued once it has elapsed; a TimeoutError
\* is thrown only when it has elapsed.
C4_TimeoutAtLoopStart ==
    /\ [](pc \in {"issue"} => Elapsed <= timeout)
    /\ [](queries > 0 => lastQueryAt - startTime <= timeout)
    /\ [](TimedOut =>
            /\ Elapsed > timeout
            /\ Len(errors) < errorLimit
            /\ thrown = TimeoutError(errors, timeout)
            /\ status = "undefined")
    /\ [][(pc = "checkTimeout" /\ Elapsed > timeout) =>
            /\ pc' = "thrown"
            /\ thrown' = TimeoutError(errors, timeout)
            /\ queries' = queries]_vars

C4_Witness ==
    /\ pc = "thrown"
    /\ TimedOut
    /\ Len(errors) = 2
    /\ Elapsed > timeout

\* C5: when the dispatch, the status queries and the timer all return,
\* every attempt reaches a terminal position (returned or thrown).
C5_Terminates == <>Terminal

\* ten polls that all answered StillProcessing, then the timeout
C5_Witness ==
    /\ pc = "thrown"
    /\ TimedOut
    /\ timeout = 2500
    /\ queries >= 10
    /\ onlyStill

\* C6: between any two consecutive status queries of a cycle at least
\* pollDelay (250 ms) of wall clock passes.
C6_OneQueryPerDelayWindow ==
    [][(queries' = queries + 1 /\ queries >= 1) => now' - lastQueryAt >= pollDelay]_vars

\* a third query, issued after an anomaly branch and a StillProcessing branch
C6_Witness ==
    /\ pc = "query"
    /\ queries >= 3
    /\ raised # <<>>
    /\ lastOutcome.kind = "StillProcessing"

\* C7: if every status query yielded StillProcessing the cycle is still
\* running with an empty anomaly log, or it has failed with TimeoutError
\* after the timeout elapsed, carrying an empty anomaly log.
C7_AlwaysStillProcessingTimesOut ==
    (Dispatched /\ onlyStill) =>
        /\ errors = <<>>
        /\ status = "undefined"
        /\ pc # "returned"
        /\ pc = "thrown" =>
             /\ thrown = TimeoutError(<<>>, timeout)
             /\ Elapsed > timeout

\* the scenario: timeout 1000, the poller queried at least 4 times
C7_Witness ==
    /\ timeout = 1000
    /\ onlyStill
    /\ pc = "thrown"
    /\ TimedOut
    /\ thrown.causeErrors = <<>>
    /\ queries >= 4
    /\ startTime + 1000 < now

\* C8: when the last status query (issued within the timeout) yielded
\* Success after k < errorLimit unexpected errors, the attempt does not fail:
\* it returns that payload unchanged and its log holds exactly those k errors.
C8_SuccessAfterAnomalies ==
    lastOutcome.kind = "Success" =>
        /\ pc \in {"sleep", "while", "returned"}
        /\ thrown = NoError
        /\ status = lastOutcome.detail
        /\ errors = raised
        /\ Len(errors) < errorLimit
        /\ pc = "returned" => result = lastOutcome.detail

\* the scenario [StillProcessing, TransientAnomaly, Success]
C8_Witness ==
    /\ pc = "returned"
    /\ result = "docB"
    /\ queries = 3
    /\ Len(errors) = 1

\* C9: if the dispatch fails, the attempt rejects with the transport's own
\* error; no status query is issued, no anomaly recorded, the ceiling is not
\* tested and nothing is retried.
C9_DispatchFailurePropagates ==
    (fetched # NoFetch /\ ~fetched.ok) =>
        /\ pc = "thrown"
        /\ thrown = PlainError("TransportError", fetched.error)
        /\ ~Dispatched
        /\ queries = 0
        /\ errors = <<>>
        /\ raised = <<>>
        /\ ~limitEvaluated

C9_Witness ==
    /\ pc = "thrown"
    /\ thrown.kind = "TransportError"
    /\ thrown.detail = "schemaErr"

\* C10 as stated: EngineFailure on the first poll ends the attempt as Fatal
\* with no anomaly and the ceiling test has never been evaluated.
C10_Original_CeilingNeverEvaluated ==
    (lastOutcome.kind = "EngineError" /\ queries = 1) =>
        /\ Fatal
        /\ errors = <<>>
        /\ ~limitEvaluated

\* C10 amended: EngineFailure on the first poll ends the attempt as Fatal
\* with no anomaly; the ceiling test was evaluated at the start of that
\* iteration (before the query, where it did not fire) and the ceiling never
\* ends the attempt.
C10_FirstPollEngineFailure ==
    /\ [](queries >= 1 => limitEvaluated)
    /\ []((lastOutcome.kind = "EngineError" /\ queries = 1) =>
            /\ pc = "thrown"
            /\ Fatal
            /\ thrown.detail = lastOutcome.detail
            /\ errors = <<>>
            /\ thrown.causeErrors = <<>>
            /\ limitEvaluated)

C10_Witness ==
    /\ queries = 1
    /\ Fatal
    /\ thrown.detail = "engineErrB"
    /\ errors = <<>>

\* C11: interleaved attempts share no mutable state.  A step changes the
\* locals of at most one attempt; the anomaly log of an attempt holds exactly
\* the anomalies its own queries raised; an attempt times out only on its own
\* start time and timeout, and carries its own log.
C11_AttemptsIndependent ==
    /\ [][\A i, j \in Attempts : (i # j /\ att'[i] # att[i]) => att'[j] = att[j]]_mvars
    /\ [](\A j \in Attempts :
            /\ Len(att[j].errors) = att[j].nraised
            /\ \A k \in 1..Len(att[j].errors) : att[j].errors[k] = j
            /\ att[j].thrown.kind = "TimeoutError" =>
                 /\ mnow - att[j].startTime > att[j].timeout
                 /\ att[j].thrown.causeErrors = att[j].errors
            /\ att[j].thrown.kind = "Error" => att[j].thrown.causeErrors = att[j].errors)

\* one attempt hit the ceiling while the other, started later, succeeded
\* with an empty log
C11_Witness ==
    /\ att["a1"].thrown.kind = "Error"
    /\ Len(att["a1"].errors) = 3
    /\ att["a2"].pc = "returned"
    /\ att["a2"].errors = <<>>
    /\ att["a2"].startTime > att["a1"].startTime

(* ------------------------ request builder claims ------------------------ *)
Built == bpc = "built"
\* N, the number of caller-supplied actions
NumUser == Len(OwnActions(meta))
ShotRequested == "screenshot" \in meta.formats \/ "screenshot@fullPage" \in meta.formats
NumWait == IF meta.waitFor # 0 THEN 1 ELSE 0
\* the actions the request carries (none when the field is absent)
Pipeline == IF request.hasActions THEN request.actions ELSE <<>>
\* number of screenshot actions the builder added itself
NumSynthShots == Len(Pipeline) - NumUser - NumWait

\* C12 as stated: with a non-zero wait and N caller actions the pipeline has
\* length N+1, the wait action first and the caller's actions in order.
C12_Original_LengthNPlusOne ==
    (Built /\ meta.waitFor # 0) =>
        /\ Len(Pipeline) = NumUser + 1
        /\ Pipeline[1] = WaitAction(meta.waitFor)
        /\ SubSeq(Pipeline, 2, Len(Pipeline)) = OwnActions(meta)

\* C12 amended: with a non-zero wait and N caller actions the pipeline has
\* length N+1 when no screenshot format is requested and N+2 when one is;
\* the wait action is first and the caller's actions are the last N entries
\* in their original order.
C12_WaitFirstUserActionsLast ==
    (Built /\ meta.waitFor # 0) =>
        /\ request.hasActions
        /\ Len(Pipeline) = NumUser + 1 + (IF ShotRequested THEN 1 ELSE 0)
        /\ Pipeline[1] = WaitAction(meta.waitFor)
        /\ SubSeq(Pipeline, Len(Pipeline) - NumUser + 1, Len(Pipeline)) = OwnActions(meta)

C12_Witness ==
    /\ Built
    /\ meta.waitFor = 500
    /\ ~ShotRequested
    /\ NumUser = 2
    /\ meta.actions[1] # meta.actions[2]
    /\ Len(request.actions) = 3

\* C13: with zero wait, no screenshot format and no caller action the
\* request has no actions field; in every other case the field is present
\* and holds the non-empty pipeline: the wait, the screenshot and the
\* caller's actions.
C13_ActionsOmittedWhenEmpty ==
    Built =>
        /\ (meta.waitFor = 0 /\ ~ShotRequested /\ NumUser = 0) => ~request.hasActions
        /\ (meta.waitFor # 0 \/ ShotRequested \/ NumUser > 0) =>
             /\ request.hasActions
             /\ Len(request.actions) = NumWait + (IF ShotRequested THEN 1 ELSE 0) + NumUser
             /\ Len(request.actions) > 0
        /\ ~request.hasActions => request.actions = <<>>

\* an empty (not absent) list of caller actions still gives no actions field
C13_Witness ==
    /\ Built
    /\ meta.waitFor = 0
    /\ meta.formats = {"markdown"}
    /\ meta.hasActions
    /\ meta.actions = <<>>
    /\ ~request.hasActions

\* C14 as stated: for every set of formats, the synthesized screenshot
\* action has fullPage true if full-page is requested and false if plain
\* screenshot is requested, and there is at most one such action.
C14_Original_FlagPerFormat ==
    (Built /\ ShotRequested) =>
        /\ NumSynthShots = 1
        /\ "screenshot@fullPage" \in meta.formats => Pipeline[NumWait + 1] = ScreenshotAction(TRUE)
        /\ "screenshot" \in meta.formats => Pipeline[NumWait + 1] = ScreenshotAction(FALSE)

\* C14 amended: exactly one screenshot action is synthesized when a
\* screenshot format is requested and none otherwise; its fullPage flag is
\* true when full-page is requested (also when plain is requested too) and
\* false when only the plain screenshot is requested.
C14_FullPageFlag ==
    Built =>
        /\ NumSynthShots = (IF ShotRequested THEN 1 ELSE 0)
        /\ ShotRequested =>
             Pipeline[NumWait + 1] = ScreenshotAction("screenshot@fullPage" \in meta.formats)

C14_Witness ==
    /\ Built
    /\ meta.formats = {"screenshot", "screenshot@fullPage"}
    /\ meta.waitFor # 0
    /\ request.actions[2] = ScreenshotAction(TRUE)

(* --------------------------- poller claims, II -------------------------- *)

\* C15 as stated: the poller is in the inter-poll delay only after a query
\* that left it in Polling (StillProcessing or a recorded anomaly); after a
\* Success or an EngineFailure the cycle has ended without a delay.
C15_DelayOnlyWhilePolling ==
    /\ pc = "sleep" => lastOutcome.kind \in {"StillProcessing", "Unexpected"}
    /\ lastOutcome.kind \in {"Success", "EngineError"} => Terminal

\* C16: at the start of an iteration the ceiling is tested before the
\* timeout.  With the ceiling reached and the timeout elapsed the attempt
\* fails with the error-limit error, not with TimeoutError, and issues no
\* query; a TimeoutError is only thrown with the count below the ceiling.
C16_CeilingBeforeTimeout ==
    /\ [][(pc = "checkLimit" /\ Len(errors) >= errorLimit /\ Elapsed > timeout) =>
            /\ pc' = "thrown"
            /\ thrown' = ErrorLimitError(errors)
            /\ queries' = queries]_vars
    /\ [](TimedOut => Len(errors) < errorLimit)
    /\ []((Terminal /\ Len(errors) >= errorLimit) => ErrorLimitExceeded)

\* the third anomaly came back late: ceiling reached and timeout elapsed
C16_Witness ==
    /\ pc = "thrown"
    /\ ErrorLimitExceeded
    /\ Elapsed > timeout
    /\ timeout = 1000

\* C17: the anomaly log never holds more than errorLimit (3) entries, it
\* is empty when the cycle starts, and a status query is only issued with
\* fewer than errorLimit entries in it.
C17_LogBounded ==
    /\ [](Len(errors) <= errorLimit)
    /\ []((pc = "while" /\ queries = 0) => errors = <<>>)
    /\ [][(pc = "dispatch" /\ pc' = "while") => errors' = <<>>]_vars
    /\ [][queries' # queries => Len(errors) < errorLimit]_vars
    /\ [](pc \in {"issue", "query"} => Len(errors) < errorLimit)

\* the log is full and the ceiling test is about to run
C17_Witness ==
    /\ pc = "checkLimit"
    /\ Len(errors) = errorLimit

\* C18: the error of a TimedOut or ErrorLimitExceeded outcome carries in
\* cause.errors exactly the unexpected errors this cycle's queries raised,
\* in the order raised; TimeoutError also carries the timeout argument, the
\* error-limit error carries none, and the two are different kinds.
C18_DiagnosticIsAnomalyHistory ==
    (TimedOut \/ ErrorLimitExceeded) =>
        /\ thrown.causeErrors = raised
        /\ \A k \in 1..Len(thrown.causeErrors) : thrown.causeErrors[k] \in UnexpectedErrors
        /\ TimedOut => (thrown.causeTimeout = timeout /\ thrown.kind # "Error")
        /\ ErrorLimitExceeded => (thrown.causeTimeout = NoCauseTimeout /\ thrown.kind # "TimeoutError")

C18_Witness ==
    /\ TimedOut
    /\ thrown.causeErrors = <<"netErr", "parseErr">>
    /\ thrown.causeTimeout = 1000

\* C19: the anomaly count never decreases during a cycle and a
\* StillProcessing outcome leaves the log as it is (it does not restart the
\* count); whenever three unexpected errors have been raised in a cycle,
\* consecutive or not, the attempt can only end with the error-limit error
\* carrying the three.
C19_CountIsCumulative ==
    /\ [][pc # "dispatch" => Len(errors') >= Len(errors)]_vars
    /\ [][(pc = "query" /\ lastOutcome'.kind = "StillProcessing") => errors' = errors]_vars
    /\ [](lastOutcome.kind = "StillProcessing" => errors = raised)
    /\ []((Len(raised) = errorLimit /\ Terminal) =>
            /\ ErrorLimitExceeded
            /\ Len(thrown.causeErrors) = errorLimit)

\* a StillProcessing outcome after two anomalies: the count is still 2 and
\* there is time left for a further query
C19_Witness ==
    /\ pc = "sleep"
    /\ lastOutcome.kind = "StillProcessing"
    /\ Len(errors) = 2
    /\ timeout = 1000
    /\ Elapsed <= 500

\* C20: the processing flag of the job handle is not read.  For both
\* values the cycle starts with status undefined and an empty log, the first
\* loop test enters the loop, and the attempt has a status (and can return)
\* only once a status query has answered Success, whose payload it is.
C20_ProcessingFlagIgnored ==
    /\ [][(pc = "dispatch" /\ pc' = "while") =>
            /\ status' = "undefined"
            /\ errors' = <<>>
            /\ startTime' = now']_vars
    /\ []((Dispatched /\ queries = 0) => (status = "undefined" /\ pc # "returned"))
    /\ [](Success => (queries >= 1 /\ lastOutcome = [kind |-> "Success", detail |-> status]))
    /\ [](pc = "returned" => (Success /\ result = status))

\* a handle that says the job is not processing is still polled
C20_Witness ==
    /\ Dispatched
    /\ ~scrape.processing
    /\ pc = "returned"
    /\ queries = 2

====
